---- MODULE Spec2Model ----
(***************************************************************************)
(* The two command line drivers of The-wiZZ, pdf_maker.py and              *)
(* pdf_maker_full_sample.py, as one state machine.  A behaviour is one     *)
(* execution of a driver (specification Spec) or two consecutive           *)
(* executions (specification SpecPair).  Redshifts are fixed-point         *)
(* integers; Python's None is the string "None".                           *)
(***************************************************************************)
EXTENDS Integers, Sequences, FiniteSets

VARIABLES driver, args, pc, z_bin_edge_array, binner, pdf_maker, files,
          output_file, warnings, calls, error, prev

vars == <<driver, args, pc, z_bin_edge_array, binner, pdf_maker, files,
          output_file, warnings, calls, error, prev>>

(***************************************************************************)
(* Bounds of the model.                                                    *)
(***************************************************************************)
MaxBins == 2
MaxBootstrap == 2

None == "None"

(***************************************************************************)
(* Generic helpers on sequences and integers.                              *)
(***************************************************************************)
Range(s) == {s[i] : i \in DOMAIN s}

RECURSIVE SumSeq(_)
SumSeq(s) == IF s = <<>> THEN 0 ELSE Head(s) + SumSeq(Tail(s))

DropLast(s) == SubSeq(s, 1, Len(s) - 1)

\* The place of s[i] in the stable ascending order of s.
SortedPlace(s, i) ==
    1 + Cardinality({j \in DOMAIN s :
                        s[j] < s[i] \/ (s[j] = s[i] /\ j < i)})

SortAscending(s) ==
    [k \in DOMAIN s |-> s[CHOOSE i \in DOMAIN s : SortedPlace(s, i) = k]]

FilterRange(s, lo, hi) ==
    LET InRange(x) == lo <= x /\ x <= hi
    IN  SelectSeq(s, InRange)

RECURSIVE FloorLog2(_)
FloorLog2(x) == IF x < 2 THEN 0 ELSE 1 + FloorLog2(x \div 2)

RECURSIVE Pow2(_)
Pow2(e) == IF e = 0 THEN 1 ELSE 2 * Pow2(e - 1)

(***************************************************************************)
(* The external collaborators: the pair table, the unknown catalog and the *)
(* files named on the command line.                                        *)
(***************************************************************************)
Regions == {0, 1}
NRegions == Cardinality(Regions)

PairTable ==
    << [region |-> 0, redshift |-> 12, matched |-> <<1, 2>>],
       [region |-> 1, redshift |-> 24, matched |-> <<2>>],
       [region |-> 0, redshift |-> 24, matched |-> <<1, 2, 3>>],
       [region |-> 1, redshift |-> 50, matched |-> <<3>>],
       [region |-> 0, redshift |-> 70, matched |-> <<1>>] >>

UnknownWeights == <<2, 1, 3>>

EdgeFiles == {"edges_a.txt", "edges_b.txt"}
SampleFiles == {"samples_a.txt", "samples_b.txt"}
MissingFile == "missing.txt"

\* np.loadtxt raises on a path outside Readable.
Readable == EdgeFiles \cup SampleFiles

loadtxt(path) ==
    CASE path = "edges_a.txt"   -> <<0, 20, 40, 60>>
      [] path = "edges_b.txt"   -> <<10, 30, 72>>
      [] path = "samples_a.txt" -> << <<0, 1>>, <<1, 1>> >>
      [] path = "samples_b.txt" -> << <<0, 0>> >>

(***************************************************************************)
(* RedshiftBinner.                                                         *)
(***************************************************************************)
_create_linear_redshift_bin_edges(z_min, z_max, z_n_bins) ==
    [i \in 1..(z_n_bins + 1) |->
        z_min + ((i - 1) * (z_max - z_min)) \div z_n_bins]

\* Edges evenly spaced in F[z], transformed back by the inverse of F, for a
\* function F on z_min..z_max.
TransformedEdges(F, z_min, z_max, z_n_bins) ==
    [i \in 1..(z_n_bins + 1) |->
        LET target == F[z_min] + ((i - 1) * (F[z_max] - F[z_min])) \div z_n_bins
        IN  CHOOSE z \in z_min..z_max :
               /\ F[z] <= target
               /\ \A y \in z_min..z_max : F[y] <= target => y <= z]

ZUnit == 10
LogScale == 128

\* ln(1 + z) up to a constant factor and offset, in fixed point.
Log1p(z) ==
    LET x == ZUnit + z
        e == FloorLog2(x)
    IN  LogScale * e + (LogScale * (x - Pow2(e))) \div Pow2(e)

\* The injected cosmology: a concave, increasing distance-redshift relation.
ComovingDistance(z) == z * (400 - z)

_create_logspace_redshift_bin_edges(z_min, z_max, z_n_bins) ==
    TransformedEdges([z \in z_min..z_max |-> Log1p(z)],
                     z_min, z_max, z_n_bins)

_create_comoving_redshift_bin_edges(z_min, z_max, z_n_bins) ==
    TransformedEdges([z \in z_min..z_max |-> ComovingDistance(z)],
                     z_min, z_max, z_n_bins)

\* The degenerate input on which the adaptive binner raises BinningError.
AdaptiveDegenerate(z_min, z_max, z_n_bins, redshift_array) ==
    Cardinality(Range(FilterRange(redshift_array, z_min, z_max))) < z_n_bins

_create_adaptive_redshift_bin_edges(z_min, z_max, z_n_bins, redshift_array) ==
    LET useable == SortAscending(FilterRange(redshift_array, z_min, z_max))
        m == Len(useable)
    IN  [i \in 1..(z_n_bins + 1) |->
            IF i = z_n_bins + 1 THEN z_max
            ELSE useable[((i - 1) * m) \div z_n_bins + 1]]

(***************************************************************************)
(* PDFMaker, the orchestrator, and the operations the drivers call on it.  *)
(***************************************************************************)
PipelineStates == <<"Uninitialized", "PairsLoaded", "Collapsed",
                    "RegionDensitiesComputed", "BootstrapComputed", "Written">>

StateRank(s) == CHOOSE i \in DOMAIN PipelineStates : PipelineStates[i] = s

AtLeast(s, t) == StateRank(s) >= StateRank(t)

\* The name pdf_maker before the driver has assigned it.
Unbound ==
    [bound |-> FALSE, state |-> "Uninitialized",
     reference_redshift_array |-> <<>>, estimates |-> <<>>,
     edges |-> <<>>, z_max |-> 0, region_densities |-> <<>>, pdf |-> <<>>]

PDFMaker ==
    [Unbound EXCEPT !.bound = TRUE, !.state = "PairsLoaded",
        !.reference_redshift_array =
            [i \in DOMAIN PairTable |-> PairTable[i].redshift]]

\* PairCollapser: one density per reference object.
CollapsedEstimates(weighted) ==
    [i \in DOMAIN PairTable |->
        [region |-> PairTable[i].region,
         redshift |-> PairTable[i].redshift,
         density |-> SumSeq([k \in DOMAIN PairTable[i].matched |->
                        IF weighted THEN UnknownWeights[PairTable[i].matched[k]]
                        ELSE 1])]]

collapse_ids_to_single_estimate(a) ==
    [PDFMaker EXCEPT !.state = "Collapsed",
        !.estimates = CollapsedEstimates(a.unknown_weight_name # None)]

collapse_full_sample(pm, a) ==
    [pm EXCEPT !.state = "Collapsed", !.estimates = CollapsedEstimates(FALSE)]

\* Bin of redshift z: the number of edges at or below z; 0 is below the
\* first edge and Len(edges) is at or above the last one.
BinIndex(edges, z) == Cardinality({i \in DOMAIN edges : edges[i] <= z})

NBinsOf(edges) == IF Len(edges) = 0 THEN 0 ELSE Len(edges) - 1

compute_region_densities(pm, edges, z_max) ==
    LET est == pm.estimates
        InCell(i, r, b) == /\ est[i].region = r
                           /\ est[i].redshift < z_max
                           /\ BinIndex(edges, est[i].redshift) = b
        Cell(r, b) ==
            [density |-> SumSeq([i \in DOMAIN est |->
                            IF InCell(i, r, b) THEN est[i].density ELSE 0]),
             count |-> SumSeq([i \in DOMAIN est |->
                            IF InCell(i, r, b) THEN 1 ELSE 0])]
    IN  [pm EXCEPT !.state = "RegionDensitiesComputed",
            !.edges = edges, !.z_max = z_max,
            !.region_densities =
                [r \in Regions |-> [b \in 1..NBinsOf(edges) |-> Cell(r, b)]]]

PdfScale == 10

RECURSIVE ISqrtFrom(_, _)
ISqrtFrom(v, r) == IF (r + 1) * (r + 1) > v THEN r ELSE ISqrtFrom(v, r + 1)

\* BootstrapEngine on a given list of region draws, one row per trial.
_compute_pdf_bootstrap(pm, bootstrap_region_array) ==
    LET M == pm.region_densities
        nb == NBinsOf(pm.edges)
        nt == Len(bootstrap_region_array)
        Value(b, t) ==
            LET draw == bootstrap_region_array[t]
                d == SumSeq([k \in DOMAIN draw |-> M[draw[k]][b].density])
                c == SumSeq([k \in DOMAIN draw |-> M[draw[k]][b].count])
            IN  IF c = 0 THEN 0 ELSE (PdfScale * d) \div c
        Mean(b) == SumSeq([t \in 1..nt |-> Value(b, t)]) \div nt
        Err(b) == ISqrtFrom(SumSeq([t \in 1..nt |->
                      (Value(b, t) - Mean(b)) * (Value(b, t) - Mean(b))])
                      \div nt, 0)
    IN  [pm EXCEPT !.state = "BootstrapComputed",
            !.pdf = [regions |-> bootstrap_region_array,
                     trials |-> [b \in 1..nb |-> [t \in 1..nt |-> Value(b, t)]],
                     estimate |-> [b \in 1..nb |-> Mean(b)],
                     error |-> [b \in 1..nb |-> Err(b)]]]

\* The draws compute_pdf_bootstrap(n_bootstrap) can make.
RandomDraws(n_bootstrap) == [1..n_bootstrap -> [1..NRegions -> Regions]]

write_pdf_to_ascii(pm) == [pm EXCEPT !.state = "Written"]

(***************************************************************************)
(* Python values of args.z_binning_type: a str or a list of str.           *)
(***************************************************************************)
Str(s) == [kind |-> "str", s |-> s, l |-> <<>>]
List(l) == [kind |-> "list", s |-> "", l |-> l]

FirstChar(s) ==
    CASE s = "linear"   -> "l"
      [] s = "adaptive" -> "a"
      [] s = "comoving" -> "c"
      [] s = "logspace" -> "l"
      [] s = "file"     -> "f"
      [] s = "bogus"    -> "b"

\* v[0]
Item0(v) == IF v.kind = "list" THEN v.l[1] ELSE FirstChar(v.s)

\* v[1] is defined
HasItem1(v) == IF v.kind = "list" THEN Len(v.l) >= 2 ELSE TRUE

\* v[1], read by the drivers only where v[0] == 'file', so v is a list
Item1(v) == v.l[2]

\* v == s for a str literal s
EqStr(v, s) == v.kind = "str" /\ v.s = s

(***************************************************************************)
(* The binning dispatch of each driver: what the if/elif chain does in the *)
(* current state.  err is the exception that leaves the chain, if any.     *)
(***************************************************************************)
\* binner is the binner the chain has called, "none" when the exception
\* came before any call.
Edges(b, e) == [err |-> "none", binner |-> b, edges |-> e, warned |-> FALSE]
Raise(x, b) == [err |-> x, binner |-> b, edges |-> <<>>, warned |-> FALSE]

\* The else branch of the dispatch turned into a hard failure.
LinearFallbackRaises(a) == Raise("InvalidBinningPolicy", "none")

LinearFallback(a) ==
    [err |-> "none", binner |-> "linear", warned |-> TRUE,
     edges |-> _create_linear_redshift_bin_edges(a.z_min, a.z_max, a.z_n_bins)]

AdaptiveBranch(a, pm) ==
    IF ~pm.bound THEN Raise("NameError", "none")
    ELSE IF AdaptiveDegenerate(a.z_min, a.z_max, a.z_n_bins,
                               pm.reference_redshift_array)
    THEN Raise("BinningError", "adaptive")
    ELSE Edges("adaptive",
               _create_adaptive_redshift_bin_edges(
                   a.z_min, a.z_max, a.z_n_bins, pm.reference_redshift_array))

\* FileBranch without the [:-1].
FileBranchKeepsLast(a) ==
    IF ~HasItem1(a.z_binning_type) THEN Raise("IndexError", "none")
    ELSE IF Item1(a.z_binning_type) \notin Readable THEN Raise("IOError", "file")
    ELSE Edges("file", loadtxt(Item1(a.z_binning_type)))

FileBranch(a) ==
    IF ~HasItem1(a.z_binning_type) THEN Raise("IndexError", "none")
    ELSE IF Item1(a.z_binning_type) \notin Readable THEN Raise("IOError", "file")
    ELSE Edges("file", DropLast(loadtxt(Item1(a.z_binning_type))))

PdfMakerBins(a, pm) ==
    LET name == Item0(a.z_binning_type) IN
    IF name = "linear"
    THEN Edges("linear", _create_linear_redshift_bin_edges(
                             a.z_min, a.z_max, a.z_n_bins))
    ELSE IF name = "adaptive" THEN AdaptiveBranch(a, pm)
    ELSE IF name = "comoving"
    THEN Edges("comoving", _create_comoving_redshift_bin_edges(
                               a.z_min, a.z_max, a.z_n_bins))
    ELSE IF name = "logspace"
    THEN Edges("logspace", _create_logspace_redshift_bin_edges(
                               a.z_min, a.z_max, a.z_n_bins))
    ELSE IF name = "file" THEN FileBranch(a)
    ELSE LinearFallback(a)

FullSampleBins(a, pm) ==
    LET v == a.z_binning_type IN
    IF EqStr(v, "linear")
    THEN Edges("linear", _create_linear_redshift_bin_edges(
                             a.z_min, a.z_max, a.z_n_bins))
    ELSE IF EqStr(v, "adaptive") THEN AdaptiveBranch(a, pm)
    ELSE IF EqStr(v, "comoving")
    THEN Edges("comoving", _create_comoving_redshift_bin_edges(
                               a.z_min, a.z_max, a.z_n_bins))
    ELSE IF EqStr(v, "logspace")
    THEN Edges("logspace", _create_logspace_redshift_bin_edges(
                               a.z_min, a.z_max, a.z_n_bins))
    ELSE LinearFallback(a)

(***************************************************************************)
(* The command lines.                                                      *)
(***************************************************************************)
Drivers == {"pdf_maker", "pdf_maker_full_sample"}

BinningNames == {"linear", "adaptive", "comoving", "logspace", "file", "bogus"}

ZBinningTypes ==
    {Str(n) : n \in BinningNames} \cup {List(<<n>>) : n \in BinningNames}
    \cup {List(<<"file", p>>) : p \in EdgeFiles \cup {MissingFile}}

ZMins == {0, 12}
ZMaxs == {20, 72}

ArgsSet ==
    [z_binning_type : ZBinningTypes,
     z_min : ZMins, z_max : ZMaxs, z_n_bins : 1..MaxBins,
     unknown_weight_name : {None, "weight"},
     output_region_pickle_file : {None, "regions.pkl"},
     output_bootstraps_file : {None, "bootstraps.txt"},
     bootstrap_samples : {None, MissingFile} \cup SampleFiles,
     n_bootstrap : 1..MaxBootstrap,
     output_pdf_file_name : {"pdf.txt"}]

NoRun == [exists |-> FALSE]

\* The exception that ended the run and the statement that raised it.
NoError == [name |-> "none", at |-> "none"]

\* The state at the first statement of a driver run on command line a.
Begin(d, a) ==
    /\ driver = d
    /\ args = a
    /\ pc = "start"
    /\ z_bin_edge_array = <<>>
    /\ binner = "none"
    /\ pdf_maker = Unbound
    /\ files = {}
    /\ output_file = "none"
    /\ warnings = {}
    /\ calls = <<>>
    /\ error = NoError

Init ==
    /\ \E d \in Drivers, a \in ArgsSet : Begin(d, a)
    /\ prev = NoRun

(***************************************************************************)
(* The statements of the drivers.                                          *)
(***************************************************************************)
FullSample == driver = "pdf_maker_full_sample"

\* An orchestrator or binner call, with the pipeline state it is made in.
Call(op) == Append(calls, [op |-> op, state |-> pdf_maker.state])

Abort(x) ==
    /\ pc' = "aborted"
    /\ error' = [name |-> x, at |-> pc]

\* ParseArgs refusing a weight name in the full-sample driver.
ParseArgsRejectsWeight ==
    /\ pc = "start"
    /\ IF FullSample /\ args.unknown_weight_name # None
       THEN Abort("WeightNotSupported")
       ELSE pc' = "load" /\ error' = error
    /\ UNCHANGED <<driver, args, z_bin_edge_array, binner, pdf_maker, files,
                   output_file, warnings, calls, prev>>

\* pdf_maker.py 21-27, pdf_maker_full_sample.py 20-33
ParseArgs ==
    /\ pc = "start"
    /\ pc' = "load"
    /\ warnings' = IF FullSample /\ args.unknown_weight_name # None
                   THEN warnings \cup {"weight_ignored"} ELSE warnings
    /\ UNCHANGED <<driver, args, z_bin_edge_array, binner, pdf_maker, files,
                   output_file, calls, error, prev>>

\* pdf_maker.py 30-31, pdf_maker_full_sample.py 36-38
LoadFiles ==
    /\ pc = "load"
    /\ \E ok \in BOOLEAN :
          IF ok THEN /\ pc' = IF FullSample THEN "create" ELSE "bins"
                     /\ error' = error
          ELSE Abort("IOError")
    /\ UNCHANGED <<driver, args, z_bin_edge_array, binner, pdf_maker, files,
                   output_file, warnings, calls, prev>>

MaxOf(s) == CHOOSE x \in Range(s) : \A y \in Range(s) : y <= x

\* pdf_maker_full_sample.py 40-45
CreatePDFMaker ==
    /\ pc = "create"
    /\ pdf_maker' = PDFMaker
    /\ calls' = Call("PDFMaker")
    /\ warnings' = IF MaxOf(PDFMaker.reference_redshift_array) < args.z_max
                   THEN warnings \cup {"z_max_beyond_reference"} ELSE warnings
    /\ pc' = "bins"
    /\ UNCHANGED <<driver, args, z_bin_edge_array, binner, files, output_file,
                   error, prev>>

\* CreateBins with the exception of the binning step caught and ignored.
CreateBinsIgnoresFailure ==
    /\ pc = "bins"
    /\ LET r == IF FullSample THEN FullSampleBins(args, pdf_maker)
                ELSE PdfMakerBins(args, pdf_maker)
       IN  /\ calls' = IF r.binner = "none" THEN calls ELSE Call(r.binner)
           /\ warnings' = IF r.warned
                          THEN warnings \cup {"invalid_binning_name"}
                          ELSE warnings
           /\ z_bin_edge_array' = r.edges
           /\ binner' = IF r.err = "none" THEN r.binner ELSE binner
           /\ pc' = "collapse"
    /\ UNCHANGED <<driver, args, pdf_maker, files, output_file, error, prev>>

\* pdf_maker.py 54-78, pdf_maker_full_sample.py 68-89
CreateBins ==
    /\ pc = "bins"
    /\ LET r == IF FullSample THEN FullSampleBins(args, pdf_maker)
                ELSE PdfMakerBins(args, pdf_maker)
       IN  /\ calls' = IF r.binner = "none" THEN calls ELSE Call(r.binner)
           /\ warnings' = IF r.warned
                          THEN warnings \cup {"invalid_binning_name"}
                          ELSE warnings
           /\ IF r.err = "none"
              THEN /\ z_bin_edge_array' = r.edges
                   /\ binner' = r.binner
                   /\ pc' = "collapse"
                   /\ error' = error
              ELSE /\ Abort(r.err)
                   /\ UNCHANGED <<z_bin_edge_array, binner>>
    /\ UNCHANGED <<driver, args, pdf_maker, files, output_file, prev>>

\* Collapse with a worker failure swallowed: the run goes on without the
\* collapsed estimates.
CollapseSwallowsFailure ==
    /\ pc = "collapse"
    /\ calls' = Call(IF FullSample THEN "collapse_full_sample"
                     ELSE "collapse_ids_to_single_estimate")
    /\ \E ok \in BOOLEAN :
          pdf_maker' = IF ~ok THEN pdf_maker
                       ELSE IF FullSample
                       THEN collapse_full_sample(pdf_maker, args)
                       ELSE collapse_ids_to_single_estimate(args)
    /\ pc' = "region_densities"
    /\ UNCHANGED <<driver, args, z_bin_edge_array, binner, files, output_file,
                   warnings, error, prev>>

\* pdf_maker.py 87-89, pdf_maker_full_sample.py 98-100
Collapse ==
    /\ pc = "collapse"
    /\ calls' = Call(IF FullSample THEN "collapse_full_sample"
                     ELSE "collapse_ids_to_single_estimate")
    /\ \E ok \in BOOLEAN :
          IF ok
          THEN /\ pdf_maker' = IF FullSample
                               THEN collapse_full_sample(pdf_maker, args)
                               ELSE collapse_ids_to_single_estimate(args)
               /\ pc' = "region_densities"
               /\ error' = error
          ELSE /\ Abort("WorkerFailure")
               /\ pdf_maker' = pdf_maker
    /\ UNCHANGED <<driver, args, z_bin_edge_array, binner, files, output_file,
                   warnings, prev>>

\* pdf_maker.py 92-93, pdf_maker_full_sample.py 103-104
ComputeRegionDensities ==
    /\ pc = "region_densities"
    /\ calls' = Call("compute_region_densities")
    /\ pdf_maker' = compute_region_densities(pdf_maker, z_bin_edge_array,
                                             args.z_max)
    /\ pc' = "write_regions"
    /\ UNCHANGED <<driver, args, z_bin_edge_array, binner, files, output_file,
                   warnings, error, prev>>

\* WriteRegionDensities without the test of the option.
WriteRegionDensitiesAlways ==
    /\ pc = "write_regions"
    /\ calls' = Call("write_region_densities")
    /\ files' = files \cup {args.output_region_pickle_file}
    /\ pc' = "bootstrap"
    /\ UNCHANGED <<driver, args, z_bin_edge_array, binner, pdf_maker,
                   output_file, warnings, error, prev>>

\* pdf_maker.py 94-95, pdf_maker_full_sample.py 105-106
WriteRegionDensities ==
    /\ pc = "write_regions"
    /\ IF args.output_region_pickle_file # None
       THEN /\ calls' = Call("write_region_densities")
            /\ files' = files \cup {args.output_region_pickle_file}
       ELSE UNCHANGED <<calls, files>>
    /\ pc' = "bootstrap"
    /\ UNCHANGED <<driver, args, z_bin_edge_array, binner, pdf_maker,
                   output_file, warnings, error, prev>>

\* Bootstrap that draws at random even when a resample list is supplied.
BootstrapAlwaysRandom ==
    /\ pc = "bootstrap"
    /\ calls' = Call("compute_pdf_bootstrap")
    /\ \E ok \in BOOLEAN :
          IF ok
          THEN /\ \E draws \in RandomDraws(args.n_bootstrap) :
                     pdf_maker' = _compute_pdf_bootstrap(pdf_maker, draws)
               /\ pc' = "write_bootstraps"
               /\ error' = error
          ELSE /\ Abort("BootstrapFailure")
               /\ pdf_maker' = pdf_maker
    /\ UNCHANGED <<driver, args, z_bin_edge_array, binner, files, output_file,
                   warnings, prev>>

\* pdf_maker.py 98-104, pdf_maker_full_sample.py 109-115
Bootstrap ==
    /\ pc = "bootstrap"
    /\ IF args.bootstrap_samples = None
       THEN /\ calls' = Call("compute_pdf_bootstrap")
            /\ \E ok \in BOOLEAN :
                  IF ok
                  THEN /\ \E draws \in RandomDraws(args.n_bootstrap) :
                             pdf_maker' = _compute_pdf_bootstrap(pdf_maker, draws)
                       /\ pc' = "write_bootstraps"
                       /\ error' = error
                  ELSE /\ Abort("BootstrapFailure")
                       /\ pdf_maker' = pdf_maker
       ELSE IF args.bootstrap_samples \notin Readable
       THEN /\ Abort("IOError")
            /\ UNCHANGED <<calls, pdf_maker>>
       ELSE /\ calls' = Call("_compute_pdf_bootstrap")
            /\ \E ok \in BOOLEAN :
                  IF ok
                  THEN /\ pdf_maker' = _compute_pdf_bootstrap(
                                 pdf_maker, loadtxt(args.bootstrap_samples))
                       /\ pc' = "write_bootstraps"
                       /\ error' = error
                  ELSE /\ Abort("BootstrapFailure")
                       /\ pdf_maker' = pdf_maker
    /\ UNCHANGED <<driver, args, z_bin_edge_array, binner, files, output_file,
                   warnings, prev>>

\* WriteBootstrapSamples placed before the bootstrap, next to the other
\* optional output.
WriteBootstrapSamplesEarly ==
    /\ pc \in {"bootstrap", "write_bootstraps"}
    /\ IF pc = "bootstrap"
       THEN /\ args.output_bootstraps_file # None
            /\ args.output_bootstraps_file \notin files
            /\ calls' = Call("write_bootstrap_samples_to_ascii")
            /\ files' = files \cup {args.output_bootstraps_file}
            /\ pc' = pc
       ELSE /\ UNCHANGED <<calls, files>>
            /\ pc' = "create_output"
    /\ UNCHANGED <<driver, args, z_bin_edge_array, binner, pdf_maker,
                   output_file, warnings, error, prev>>

\* pdf_maker.py 106-108, pdf_maker_full_sample.py 117-119
WriteBootstrapSamples ==
    /\ pc = "write_bootstraps"
    /\ IF args.output_bootstraps_file # None
       THEN /\ calls' = Call("write_bootstrap_samples_to_ascii")
            /\ files' = files \cup {args.output_bootstraps_file}
       ELSE UNCHANGED <<calls, files>>
    /\ pc' = "create_output"
    /\ UNCHANGED <<driver, args, z_bin_edge_array, binner, pdf_maker,
                   output_file, warnings, error, prev>>

\* CreateAsciiFile hoisted in front of the bootstrap.
CreateAsciiFileEarly ==
    /\ pc \in {"bootstrap", "create_output"}
    /\ output_file = "none"
    /\ output_file' = "open"
    /\ files' = files \cup {args.output_pdf_file_name}
    /\ pc' = IF pc = "bootstrap" THEN pc ELSE "write_pdf"
    /\ UNCHANGED <<driver, args, z_bin_edge_array, binner, pdf_maker, warnings,
                   calls, error, prev>>

\* pdf_maker.py 111-113, pdf_maker_full_sample.py 122-123
CreateAsciiFile ==
    /\ pc = "create_output"
    /\ output_file' = "open"
    /\ files' = files \cup {args.output_pdf_file_name}
    /\ pc' = "write_pdf"
    /\ UNCHANGED <<driver, args, z_bin_edge_array, binner, pdf_maker, warnings,
                   calls, error, prev>>

\* WritePdf that can be taken again before the file is closed.
WritePdfAgain ==
    /\ pc \in {"write_pdf", "close"}
    /\ calls' = Call("write_pdf_to_ascii")
    /\ pdf_maker' = write_pdf_to_ascii(pdf_maker)
    /\ pc' = "close"
    /\ UNCHANGED <<driver, args, z_bin_edge_array, binner, files, output_file,
                   warnings, error, prev>>

\* pdf_maker.py 114, pdf_maker_full_sample.py 124
WritePdf ==
    /\ pc = "write_pdf"
    /\ calls' = Call("write_pdf_to_ascii")
    /\ pdf_maker' = write_pdf_to_ascii(pdf_maker)
    /\ pc' = "close"
    /\ UNCHANGED <<driver, args, z_bin_edge_array, binner, files, output_file,
                   warnings, error, prev>>

\* pdf_maker.py 115-116, pdf_maker_full_sample.py 125-126
CloseOutput ==
    /\ pc = "close"
    /\ output_file' = "closed"
    /\ pc' = "done"
    /\ UNCHANGED <<driver, args, z_bin_edge_array, binner, pdf_maker, files,
                   warnings, calls, error, prev>>

Next ==
    \/ ParseArgs
    \/ LoadFiles
    \/ CreatePDFMaker
    \/ CreateBins
    \/ Collapse
    \/ ComputeRegionDensities
    \/ WriteRegionDensities
    \/ Bootstrap
    \/ WriteBootstrapSamples
    \/ CreateAsciiFile
    \/ WritePdf
    \/ CloseOutput

Spec == Init /\ [][Next]_vars

\* The command lines of the runs whose termination is checked.
FairArgsSet ==
    {a \in ArgsSet :
        /\ a.z_binning_type \in {List(<<"linear">>), List(<<"adaptive">>),
                                 Str("adaptive"), List(<<"file", "edges_a.txt">>)}
        /\ a.z_min = 0 /\ a.z_max = 72 /\ a.z_n_bins = MaxBins
        /\ a.n_bootstrap = MaxBootstrap
        /\ a.unknown_weight_name = None
        /\ a.bootstrap_samples \in {None, "samples_a.txt", MissingFile}
        /\ (a.output_region_pickle_file = None)
               = (a.output_bootstraps_file = None)}

InitFair ==
    /\ \E d \in Drivers, a \in FairArgsSet : Begin(d, a)
    /\ prev = NoRun

\* A driver is one sequential script: its next statement is always executed.
SpecFair == InitFair /\ [][Next]_vars /\ WF_vars(Next)

(***************************************************************************)
(* A second execution, on the same command line or on one that differs     *)
(* from the first in a single choice.                                      *)
(***************************************************************************)
OtherDriver(d) == IF d = "pdf_maker" THEN "pdf_maker_full_sample"
                  ELSE "pdf_maker"

AsLinear(v) == IF v.kind = "list" THEN List(<<"linear">>) ELSE Str("linear")

Variations(d, a) ==
    {<<d, a>>, <<OtherDriver(d), a>>}
    \cup {<<d, [a EXCEPT !.unknown_weight_name = w]>> : w \in {None, "weight"}}
    \cup {<<d, [a EXCEPT !.n_bootstrap = n]>> : n \in 1..MaxBootstrap}
    \cup {<<d, [a EXCEPT !.z_binning_type = AsLinear(@)]>>}

Finished == pc \in {"done", "aborted"}

StartSecondRun ==
    /\ Finished
    /\ ~prev.exists
    /\ prev' = [exists |-> TRUE, driver |-> driver, args |-> args, pc |-> pc,
                z_bin_edge_array |-> z_bin_edge_array, binner |-> binner,
                pdf_maker |-> pdf_maker, files |-> files,
                warnings |-> warnings, calls |-> calls, error |-> error]
    /\ \E v \in Variations(driver, args) :
          /\ driver' = v[1]
          /\ args' = v[2]
    /\ pc' = "start"
    /\ z_bin_edge_array' = <<>>
    /\ binner' = "none"
    /\ pdf_maker' = Unbound
    /\ files' = {}
    /\ output_file' = "none"
    /\ warnings' = {}
    /\ calls' = <<>>
    /\ error' = NoError

PairArgsSet ==
    {a \in ArgsSet :
        /\ a.z_min = 0 /\ a.z_max = 72 /\ a.z_n_bins = MaxBins
        /\ a.n_bootstrap = 1
        /\ a.bootstrap_samples \in {None, "samples_a.txt"}
        /\ (a.output_region_pickle_file = None)
               = (a.output_bootstraps_file = None)}

InitPair ==
    /\ \E d \in Drivers, a \in PairArgsSet : Begin(d, a)
    /\ prev = NoRun

NextPair == Next \/ StartSecondRun

SpecPair == InitPair /\ [][NextPair]_vars

(***************************************************************************)
(* Properties of one execution.                                            *)
(***************************************************************************)
BinnerOps == {"linear", "adaptive", "comoving", "logspace", "file"}
CollapseOps == {"collapse_full_sample", "collapse_ids_to_single_estimate"}
BootstrapOps == {"compute_pdf_bootstrap", "_compute_pdf_bootstrap"}
WriteOps == {"write_region_densities", "write_bootstrap_samples_to_ascii",
             "write_pdf_to_ascii"}

Called(ops) == \E i \in DOMAIN calls : calls[i].op \in ops

CalledBefore(ops, i) == \E j \in 1..(i - 1) : calls[j].op \in ops

SelectsAdaptive ==
    IF FullSample THEN EqStr(args.z_binning_type, "adaptive")
    ELSE Item0(args.z_binning_type) = "adaptive"

BinsStepOver == pc \notin {"start", "load", "create", "bins"}
                    /\ error.at \notin {"start", "load", "create"}

\* C4: whenever the adaptive policy is selected, in either driver, the
\* adaptive binner is called with the reference redshifts of an orchestrator
\* that exists and has loaded the pair table; the binning step never reads
\* the orchestrator before it has been created.
C4_AdaptiveReadsLoadedOrchestrator ==
    /\ error.name # "NameError"
    /\ SelectsAdaptive /\ BinsStepOver
          => \E i \in DOMAIN calls :
                /\ calls[i].op = "adaptive"
                /\ AtLeast(calls[i].state, "PairsLoaded")

\* C9: the collapse operation is called only after the bin edges have been
\* created, and never in an execution whose binning step failed.
C9_NoCollapseWithoutBins ==
    /\ \A i \in DOMAIN calls :
          calls[i].op \in CollapseOps
              => /\ binner \in BinnerOps
                 /\ CalledBefore(BinnerOps, i)
                 /\ error.at # "bins"
    /\ error.at = "bins" => pc = "aborted" /\ pdf_maker.estimates = <<>>

C9_Witness ==
    /\ pc = "aborted"
    /\ error.at = "bins"
    /\ error.name = "BinningError"

\* C10 as stated: for every binning policy the edge sequence passed to
\* compute_region_densities has length z_n_bins + 1.
C10_Original ==
    AtLeast(pdf_maker.state, "RegionDensitiesComputed")
        => Len(pdf_maker.edges) = args.z_n_bins + 1

\* C10 amended: for every binning policy other than 'file' the edge
\* sequence passed to compute_region_densities has length z_n_bins + 1; in
\* the 'file' branch of pdf_maker.py it is the list read from the file, in
\* file order, with its last element dropped, whatever z_n_bins is.
C10_EdgesPassed ==
    AtLeast(pdf_maker.state, "RegionDensitiesComputed")
        => IF binner = "file"
           THEN LET listed == loadtxt(args.z_binning_type.l[2])
                IN  /\ driver = "pdf_maker"
                    /\ Len(pdf_maker.edges) = Len(listed) - 1
                    /\ \A i \in DOMAIN pdf_maker.edges :
                          pdf_maker.edges[i] = listed[i]
           ELSE Len(pdf_maker.edges) = args.z_n_bins + 1

C10_Witness ==
    /\ AtLeast(pdf_maker.state, "RegionDensitiesComputed")
    /\ binner = "file"
    /\ Len(pdf_maker.edges) # args.z_n_bins + 1

(***************************************************************************)
(* Properties of two executions.                                           *)
(***************************************************************************)
\* The binning name the command line asks for.
RequestedName(v) == IF v.kind = "list" THEN v.l[1] ELSE v.s

SamePrefix(s, t) ==
    \A i \in DOMAIN s \cap DOMAIN t : s[i] = t[i]

BothReached(state) ==
    /\ AtLeast(pdf_maker.state, state)
    /\ AtLeast(prev.pdf_maker.state, state)

\* The second run is the first one with the binning name replaced by
\* 'linear'.
LinearTwin ==
    /\ prev.exists
    /\ prev.driver = driver
    /\ args = [prev.args EXCEPT !.z_binning_type = AsLinear(@)]

\* C5: for a requested binning name that is not a recognised policy each
\* driver warns, creates the edges with the linear binner on the same
\* (z_min, z_max, z_n_bins), and goes on exactly as the run that requested
\* 'linear'; the invalid name is never fatal.
C5_InvalidNameFallsBackToLinear ==
    /\ RequestedName(args.z_binning_type) \notin BinnerOps /\ BinsStepOver
          => /\ "invalid_binning_name" \in warnings
             /\ error.at # "bins"
             /\ binner = "linear"
             /\ z_bin_edge_array = _create_linear_redshift_bin_edges(
                                       args.z_min, args.z_max, args.z_n_bins)
    /\ LinearTwin /\ RequestedName(prev.args.z_binning_type) \notin BinnerOps
          => /\ SamePrefix(calls, prev.calls)
             /\ BinsStepOver /\ prev.binner # "none"
                   => z_bin_edge_array = prev.z_bin_edge_array
             /\ BothReached("RegionDensitiesComputed")
                   => pdf_maker.region_densities
                          = prev.pdf_maker.region_densities
             /\ pc = "done" /\ prev.pc = "done"
                   => /\ calls = prev.calls
                      /\ files = prev.files
                      /\ pdf_maker.state = prev.pdf_maker.state

C5_Witness ==
    /\ LinearTwin
    /\ RequestedName(prev.args.z_binning_type) = "bogus"
    /\ "invalid_binning_name" \in prev.warnings
    /\ pc = "done"
    /\ prev.pc = "done"

\* C6: each of the five binning policies is dispatched to its own binner in
\* both drivers and the linear fallback is taken only for a name outside
\* the five, so for the same command line the two drivers pass the same bin
\* edges to compute_region_densities.
C6_SameDispatchInBothDrivers ==
    /\ RequestedName(args.z_binning_type) \in BinnerOps
          /\ BinsStepOver /\ error.at # "bins"
          => binner = RequestedName(args.z_binning_type)
    /\ "invalid_binning_name" \in warnings
          => RequestedName(args.z_binning_type) \notin BinnerOps
    /\ prev.exists /\ prev.driver # driver /\ prev.args = args
          /\ BothReached("RegionDensitiesComputed")
          => pdf_maker.edges = prev.pdf_maker.edges

\* The second run is the full-sample driver on the command line of the
\* first, a full-sample run too, with the weight name given or left out.
WeightTwin ==
    /\ prev.exists
    /\ FullSample
    /\ prev.driver = driver
    /\ args.unknown_weight_name # prev.args.unknown_weight_name
    /\ args = [prev.args EXCEPT !.unknown_weight_name = args.unknown_weight_name]

\* C7: in the full-sample driver a weight name makes the run warn and does
\* not abort it; the run performs the same pipeline operations, with the
\* same bin edges and z_max, as the run without the weight name, and a
\* completed run is in the Written state.
C7_WeightNameOnlyWarns ==
    /\ FullSample /\ args.unknown_weight_name # None /\ pc # "start"
          => /\ "weight_ignored" \in warnings
             /\ error.at # "start"
    /\ pc = "done" => pdf_maker.state = "Written"
    /\ WeightTwin
          => /\ SamePrefix(calls, prev.calls)
             /\ BinsStepOver /\ binner # "none" /\ prev.binner # "none"
                   => z_bin_edge_array = prev.z_bin_edge_array
             /\ BothReached("Collapsed")
                   => pdf_maker.estimates = prev.pdf_maker.estimates
             /\ BothReached("RegionDensitiesComputed")
                   => /\ pdf_maker.edges = prev.pdf_maker.edges
                      /\ pdf_maker.z_max = prev.pdf_maker.z_max
                      /\ pdf_maker.region_densities
                             = prev.pdf_maker.region_densities
             /\ pc = "done" /\ prev.pc = "done"
                   => calls = prev.calls /\ files = prev.files

C7_Witness ==
    /\ WeightTwin
    /\ args.unknown_weight_name = "weight"
    /\ "weight_ignored" \in warnings
    /\ pc = "done"
    /\ prev.pc = "done"
    /\ pdf_maker.state = "Written"

BootstrapCalls == {i \in DOMAIN calls : calls[i].op \in BootstrapOps}

\* The second run has the driver and the command line of the first, but
\* for n_bootstrap, and a resample list is supplied.
ResampleTwin ==
    /\ prev.exists
    /\ prev.driver = driver
    /\ args = [prev.args EXCEPT !.n_bootstrap = args.n_bootstrap]
    /\ args.bootstrap_samples # None

\* C8: with a resample list supplied the driver calls only
\* _compute_pdf_bootstrap, on the loaded list, and never
\* compute_pdf_bootstrap; one execution runs at most one bootstrap variant,
\* and exactly one once the bootstrap stage is over; two executions on the
\* same inputs and list work on the same region densities and give the same
\* PDF result, whatever n_bootstrap is.
C8_FixedResampleListOnly ==
    /\ args.bootstrap_samples # None => ~Called({"compute_pdf_bootstrap"})
    /\ args.bootstrap_samples = None => ~Called({"_compute_pdf_bootstrap"})
    /\ Cardinality(BootstrapCalls) <= 1
    /\ AtLeast(pdf_maker.state, "BootstrapComputed")
          => /\ Cardinality(BootstrapCalls) = 1
             /\ args.bootstrap_samples # None
                   => pdf_maker.pdf.regions = loadtxt(args.bootstrap_samples)
    /\ ResampleTwin
          => /\ SamePrefix(calls, prev.calls)
             /\ BothReached("RegionDensitiesComputed")
                   => pdf_maker.region_densities
                          = prev.pdf_maker.region_densities
             /\ BothReached("BootstrapComputed")
                   => pdf_maker.pdf = prev.pdf_maker.pdf

C8_Witness ==
    /\ ResampleTwin
    /\ args.n_bootstrap # prev.args.n_bootstrap
    /\ pc = "done"
    /\ prev.pc = "done"
    /\ Len(pdf_maker.pdf.trials) > 0

(***************************************************************************)
(* Progress and frame of one execution.                                    *)
(***************************************************************************)
CallCount(ops) == Cardinality({i \in DOMAIN calls : calls[i].op \in ops})

AtMostOnceEach ==
    /\ CallCount(BinnerOps) <= 1
    /\ CallCount(CollapseOps) <= 1
    /\ CallCount({"compute_region_densities"}) <= 1
    /\ CallCount(BootstrapOps) <= 1
    /\ CallCount({"write_pdf_to_ascii"}) <= 1

\* C11: within one execution the pipeline state only moves forward, each of
\* create-bin-edges, collapse, compute_region_densities, bootstrap and
\* write_pdf_to_ascii is executed at most once, nothing is executed after
\* the final PDF is written and its file closed, and every execution ends,
\* in the Written state ("Done!") unless an operation failed.
C11_ForwardOnlyAndTerminates ==
    /\ [](AtMostOnceEach)
    /\ [](pc = "done" => pdf_maker.state = "Written" /\ output_file = "closed")
    /\ [][/\ StateRank(pdf_maker'.state) >= StateRank(pdf_maker.state)
          /\ pc \notin {"done", "aborted"}]_vars
    /\ <>(pc = "aborted" \/ (pc = "done" /\ pdf_maker.state = "Written"))

C11_Witness ==
    /\ pc = "done"
    /\ pdf_maker.state = "Written"
    /\ output_file = "closed"
    /\ CallCount(BinnerOps) = 1
    /\ CallCount({"write_pdf_to_ascii"}) = 1

\* The output files the command line asks for besides the final PDF.
RequestedFiles ==
    {args.output_region_pickle_file, args.output_bootstraps_file} \ {None}

\* C12: write_region_densities is called exactly when
\* output_region_pickle_file is given and write_bootstrap_samples_to_ascii
\* exactly when output_bootstraps_file is given, the latter only after a
\* bootstrap variant has completed; the final PDF is written exactly once
\* in every successful execution whatever the options are, and the output
\* file is closed only after write_pdf_to_ascii has returned.
C12_OptionalOutputsIffRequested ==
    /\ CallCount({"write_region_densities"})
          = IF /\ args.output_region_pickle_file # None
               /\ AtLeast(pdf_maker.state, "RegionDensitiesComputed")
               /\ pc # "write_regions"
            THEN 1 ELSE 0
    /\ CallCount({"write_bootstrap_samples_to_ascii"})
          = IF /\ args.output_bootstraps_file # None
               /\ AtLeast(pdf_maker.state, "BootstrapComputed")
               /\ pc # "write_bootstraps"
            THEN 1 ELSE 0
    /\ \A i \in DOMAIN calls :
          calls[i].op = "write_bootstrap_samples_to_ascii"
              => /\ CalledBefore(BootstrapOps, i)
                 /\ AtLeast(calls[i].state, "BootstrapComputed")
    /\ CallCount({"write_pdf_to_ascii"}) <= 1
    /\ pc = "done"
          => /\ CallCount({"write_pdf_to_ascii"}) = 1
             /\ files = RequestedFiles \cup {args.output_pdf_file_name}
    /\ output_file = "closed"
          => /\ Called({"write_pdf_to_ascii"})
             /\ pdf_maker.state = "Written"
    /\ Called({"write_pdf_to_ascii"}) => output_file # "none"

C12_Witness ==
    /\ pc = "done"
    /\ args.output_region_pickle_file # None
    /\ args.output_bootstraps_file = None
    /\ Called({"write_region_densities"})
    /\ ~Called({"write_bootstrap_samples_to_ascii"})
    /\ output_file = "closed"

====
